---- MODULE Spec2Model ----
(***************************************************************************)
(* Model of DumpFileValidator (app.py): the daily and full rule engines,   *)
(* the boundary comparator compare_validation_files and the orchestrator   *)
(* process_files.                                                          *)
(*                                                                         *)
(* A DataFrame is a record [columns, rows]: the set of column names and    *)
(* the sequence of rows, each row a function from the columns to values.   *)
(* Timestamps are whole hours counted from 2024-12-02 00:00 UTC.           *)
(***************************************************************************)
EXTENDS Integers, Sequences, FiniteSets, TLC

VARIABLES
    pc,             \* where the modelled call stands
    etl_mode,       \* process_files: its etl_mode argument
    database,       \* process_files: index of the current database
    manifest_df,    \* process_files: the manifest of the current database
    row_i,          \* process_files: index of the current manifest row
    log,            \* process_files: the banners printed so far
    report,         \* process_files: the last report line printed
    raw_df,         \* the raw file
    metadata_row,   \* the manifest row of the raw file
    outcome,        \* what validate_daily_file / validate_full_file returned
    validation_df,  \* the validation file
    cmp_result      \* how compare_validation_files ended

vars == <<pc, etl_mode, database, manifest_df, row_i, log, report,
          raw_df, metadata_row, outcome, validation_df, cmp_result>>

(* ------------------------------ bounds -------------------------------- *)

\* most rows of a raw file
MaxRows == 2
\* most rows of a validation file
MaxValRows == 3
\* most rows (tables) of a manifest
MaxTables == 2

(* ------------------------ configuration (__init__) -------------------- *)

\* 2024-12-02 19:00 UTC
window_start == 19
\* 2024-12-03 19:00 UTC
window_end == 43

database_names == <<"online", "offline">>

EtlModeMap == [delta |-> "daily", full |-> "full"]

required_headers == {"table_name", "row_count", "time_start", "time_end"}

id_columns == <<"ID", "Id", "DataID", "ProductOptionDataID">>

(* ------------------------------ data ---------------------------------- *)

\* the timestamps a row may carry: the hour before the window, its first
\* instant and its (excluded) end
Dates == {window_start - 1, window_start, window_end}

FlagValues == {0, 1}

IdValues == {1}

ColumnValues(col) ==
    IF col \in {"DateCreated", "DateModified"} THEN Dates
    ELSE IF col \in {"IsCreated", "IsModified"} THEN FlagValues
    ELSE IdValues

SeqsUpTo(S, n) == UNION {[1..k -> S] : k \in 0..n}

\* every row over the given columns
RowsOver(cols) ==
    {row \in [cols -> Dates \cup FlagValues \cup IdValues] :
        \A c \in cols : row[c] \in ColumnValues(c)}

\* every DataFrame with the given columns and at most n rows
DataFrames(cols, n) ==
    {[columns |-> cols, rows |-> r] : r \in SeqsUpTo(RowsOver(cols), n)}

NoFrame == [columns |-> {}, rows |-> <<>>]

\* len(df) / len(df.index)
NRows(df) == Len(df.rows)

\* len(df[mask]): how many rows a boolean mask selects
CountRows(mask) == Cardinality({i \in DOMAIN mask : mask[i]})

(* --------------------------- rule engine ------------------------------ *)

check_manifest_headers(df) == required_headers \subseteq df.columns

\* (len(found_cols) > 0, found_cols[0] or None)
check_id_column(df) ==
    LET found == {i \in 1..Len(id_columns) : id_columns[i] \in df.columns}
    IN  IF found = {} THEN <<FALSE, "None">>
        ELSE <<TRUE, id_columns[CHOOSE i \in found : \A j \in found : i <= j]>>

RowCountMsg(expected, got) ==
    "Row count mismatch: expected " \o ToString(expected)
        \o ", got " \o ToString(got)

\* validation_results.append(m) when the rule found something
AppendIf(results, cond, m) == IF cond THEN Append(results, m) ELSE results

\* 4a, both modes
RowCountRule(results, df, meta) ==
    AppendIf(results, NRows(df) # meta.row_count,
             RowCountMsg(meta.row_count, NRows(df)))

\* 4b, both modes
IdColumnRule(results, df) ==
    AppendIf(results, ~ check_id_column(df)[1], "No valid ID column found")

DailyCreatedRule_windowed(results, df) ==
    IF {"IsCreated", "DateCreated"} \subseteq df.columns
    THEN LET invalid_created(row) ==
                 /\ row["DateCreated"] >= window_start
                 /\ row["DateCreated"] < window_end
                 /\ row["IsCreated"] # 1
             n == CountRows([i \in 1..NRows(df) |-> invalid_created(df.rows[i])])
         IN  AppendIf(results, n # 0,
                 "Found " \o ToString(n) \o " invalid IsCreated values")
    ELSE results

\* 4c, daily
DailyCreatedRule(results, df) ==
    IF {"IsCreated", "DateCreated"} \subseteq df.columns
    THEN LET invalid_created(row) ==
                 /\ row["DateCreated"] >= window_start
                 /\ row["IsCreated"] # 1
             n == CountRows([i \in 1..NRows(df) |-> invalid_created(df.rows[i])])
         IN  AppendIf(results, n # 0,
                 "Found " \o ToString(n) \o " invalid IsCreated values")
    ELSE results

\* 4d, daily
DailyModifiedRule(results, df) ==
    IF {"IsModified", "DateModified"} \subseteq df.columns
    THEN LET invalid_modified(row) ==
                 /\ row["DateModified"] >= window_start
                 /\ row["IsModified"] # 1
             n == CountRows([i \in 1..NRows(df) |-> invalid_modified(df.rows[i])])
         IN  AppendIf(results, n # 0,
                 "Found " \o ToString(n) \o " invalid IsModified values")
    ELSE results

DateCriteriaRule_closed(results, df) ==
    IF {"DateCreated", "DateModified"} \subseteq df.columns
    THEN LET date_criteria(row) ==
                 \/ /\ row["DateCreated"] >= window_start
                    /\ row["DateCreated"] <= window_end
                 \/ /\ row["DateModified"] >= window_start
                    /\ row["DateModified"] <= window_end
             invalid_dates(row) == ~ date_criteria(row)
             n == CountRows([i \in 1..NRows(df) |-> invalid_dates(df.rows[i])])
         IN  AppendIf(results, n # 0,
                 "Found " \o ToString(n) \o " records outside time window")
    ELSE results

\* 4e, daily
DateCriteriaRule(results, df) ==
    IF {"DateCreated", "DateModified"} \subseteq df.columns
    THEN LET date_criteria(row) ==
                 \/ /\ row["DateCreated"] >= window_start
                    /\ row["DateCreated"] < window_end
                 \/ /\ row["DateModified"] >= window_start
                    /\ row["DateModified"] < window_end
             invalid_dates(row) == ~ date_criteria(row)
             n == CountRows([i \in 1..NRows(df) |-> invalid_dates(df.rows[i])])
         IN  AppendIf(results, n # 0,
                 "Found " \o ToString(n) \o " records outside time window")
    ELSE results

\* 4c, full
FullCreatedRule(results, df) ==
    IF "IsCreated" \in df.columns
    THEN LET invalid_created(row) == row["IsCreated"] # 1
             n == CountRows([i \in 1..NRows(df) |-> invalid_created(df.rows[i])])
         IN  AppendIf(results, n # 0,
                 "Found " \o ToString(n) \o " rows with IsCreated != 1")
    ELSE results

FullModifiedRule_recent(results, df) ==
    IF "IsModified" \in df.columns
    THEN LET invalid_modified(row) ==
                 /\ row["IsModified"] # 0
                 /\ "DateModified" \in df.columns
                        => row["DateModified"] >= window_start
             n == CountRows([i \in 1..NRows(df) |-> invalid_modified(df.rows[i])])
         IN  AppendIf(results, n # 0,
                 "Found " \o ToString(n) \o " rows with IsModified != 0")
    ELSE results

\* 4d, full
FullModifiedRule(results, df) ==
    IF "IsModified" \in df.columns
    THEN LET invalid_modified(row) == row["IsModified"] # 0
             n == CountRows([i \in 1..NRows(df) |-> invalid_modified(df.rows[i])])
         IN  AppendIf(results, n # 0,
                 "Found " \o ToString(n) \o " rows with IsModified != 0")
    ELSE results

validate_daily_file_early_return(df, meta) ==
    LET r1 == RowCountRule(<<>>, df, meta)
        r2 == IdColumnRule(r1, df)
        r3 == DailyCreatedRule(r2, df)
        r4 == DailyModifiedRule(r3, df)
        r5 == DateCriteriaRule(r4, df)
    IN  IF r1 # <<>>
        THEN [is_valid |-> FALSE, messages |-> r1]
        ELSE [is_valid |-> Len(r5) = 0, messages |-> r5]

validate_daily_file(df, meta) ==
    LET validation_results ==
            DateCriteriaRule(
                DailyModifiedRule(
                    DailyCreatedRule(
                        IdColumnRule(
                            RowCountRule(<<>>, df, meta), df), df), df), df)
    IN  [is_valid |-> Len(validation_results) = 0,
         messages |-> validation_results]

validate_full_file_reordered(df, meta) ==
    LET validation_results ==
            FullCreatedRule(
                FullModifiedRule(
                    IdColumnRule(
                        RowCountRule(<<>>, df, meta), df), df), df)
    IN  [is_valid |-> Len(validation_results) = 0,
         messages |-> validation_results]

validate_full_file(df, meta) ==
    LET validation_results ==
            FullModifiedRule(
                FullCreatedRule(
                    IdColumnRule(
                        RowCountRule(<<>>, df, meta), df), df), df)
    IN  [is_valid |-> Len(validation_results) = 0,
         messages |-> validation_results]

(* ------------------------ boundary comparator ------------------------ *)

\* Series.equals: same labels, same values
RowEquals(a, b) == a = b

Return(ok, msg) == [kind |-> "return", is_valid |-> ok, message |-> msg]

Raise(exc) == [kind |-> "raise", error |-> exc]

SingleRowCase_any_raw(raw, val) == NRows(raw) >= 1 /\ NRows(val) = 1

\* both files have exactly one row
SingleRowCase(raw, val) == NRows(raw) = 1 /\ NRows(val) = 1

compare_validation_files(raw, val) ==
    IF NRows(val) = 0
    THEN Return(TRUE, "Validation file is empty, no changes made")
    ELSE IF SingleRowCase(raw, val)
    THEN IF RowEquals(raw.rows[1], val.rows[1])
         THEN Return(TRUE, "Validation check passed")
         ELSE Return(FALSE, "Validation and raw row mismatch")
    ELSE IF NRows(val) # 2
    THEN Return(FALSE,
             "Validation file should contain exactly 2 data rows (first and last), found "
                 \o ToString(NRows(val)) \o " rows")
    \* raw_df.iloc[0] of a frame without rows
    ELSE IF NRows(raw) = 0
    THEN Raise("IndexError")
    ELSE LET first_row_match == RowEquals(raw.rows[1], val.rows[2])
             last_row_match == RowEquals(raw.rows[NRows(raw)], val.rows[1])
             \* single_row_match is assigned only inside the single-row branch,
             \* which returns: it is never bound when line 128 reads it
             single_row_match_bound == SingleRowCase(raw, val)
         IN  IF ~ (first_row_match \/ last_row_match)
             THEN IF ~ single_row_match_bound
                  THEN Raise("UnboundLocalError")
                  ELSE Return(FALSE,
                           "First and/or last rows don't match between raw and validation files")
             ELSE Return(TRUE, "Validation file check passed")

NoOutcome == [is_valid |-> TRUE, messages |-> <<>>]

NoResult == [kind |-> "none"]

NoMeta == [table_name |-> "", row_count |-> 0]

(* ------------------- the rule engine on its own ----------------------- *)

\* identifier columns a raw file may have
RuleIdColumnSets == {{}, {"Id", "DataID"}}

RuleColumnSets ==
    {ids \cup fl : ids \in RuleIdColumnSets,
                   fl \in SUBSET {"IsCreated", "IsModified",
                                  "DateCreated", "DateModified"}}

\* a raw file is about to be read: its header and its manifest row are known
InitRules ==
    /\ pc = "loading"
    /\ raw_df \in {[columns |-> cols, rows |-> <<>>] : cols \in RuleColumnSets}
    /\ metadata_row \in [table_name : {"orders"}, row_count : 0..MaxRows]
    /\ outcome = NoOutcome
    /\ etl_mode = "" /\ database = 0 /\ manifest_df = NoFrame /\ row_i = 0
    /\ log = <<>> /\ report = ""
    /\ validation_df = NoFrame /\ cmp_result = NoResult

\* pd.read_csv reads one more row of the raw file
LoadRow ==
    /\ pc = "loading"
    /\ NRows(raw_df) < MaxRows
    /\ \E row \in RowsOver(raw_df.columns) :
          raw_df' = [raw_df EXCEPT !.rows = Append(@, row)]
    /\ UNCHANGED <<pc, etl_mode, database, manifest_df, row_i, log, report,
                   metadata_row, outcome, validation_df, cmp_result>>

ValidateDaily ==
    /\ pc = "loading"
    /\ outcome' = validate_daily_file(raw_df, metadata_row)
    /\ pc' = "daily_done"
    /\ UNCHANGED <<etl_mode, database, manifest_df, row_i, log, report,
                   raw_df, metadata_row, validation_df, cmp_result>>

ValidateFull ==
    /\ pc = "loading"
    /\ outcome' = validate_full_file(raw_df, metadata_row)
    /\ pc' = "full_done"
    /\ UNCHANGED <<etl_mode, database, manifest_df, row_i, log, report,
                   raw_df, metadata_row, validation_df, cmp_result>>

NextRules == LoadRow \/ ValidateDaily \/ ValidateFull

SpecRules == InitRules /\ [][NextRules]_vars

(* ---------------- the boundary comparator on its own ------------------ *)

CompareColumns == {"Id", "IsCreated", "IsModified"}

\* a raw file and a validation file with the same columns have been read
InitCompare ==
    /\ pc = "loaded"
    /\ raw_df \in DataFrames(CompareColumns, MaxRows)
    /\ validation_df \in DataFrames(CompareColumns, MaxValRows)
    /\ cmp_result = NoResult
    /\ etl_mode = "" /\ database = 0 /\ manifest_df = NoFrame /\ row_i = 0
    /\ log = <<>> /\ report = ""
    /\ metadata_row = NoMeta /\ outcome = NoOutcome

Compare ==
    /\ pc = "loaded"
    /\ cmp_result' = compare_validation_files(raw_df, validation_df)
    /\ pc' = "compared"
    /\ UNCHANGED <<etl_mode, database, manifest_df, row_i, log, report,
                   raw_df, metadata_row, outcome, validation_df>>

NextCompare == Compare

SpecCompare == InitCompare /\ [][NextCompare]_vars

(* ----------------------- process_files ------------------------------- *)

TableNames == {"orders"}

ProcessColumns == {"Id"}

\* manifests pd.read_csv can return whose headers pass the check
GoodManifests ==
    {[columns |-> required_headers, rows |-> r] :
        r \in SeqsUpTo([table_name : TableNames, row_count : 0..MaxRows],
                       MaxTables)}

\* manifests with a required header missing
BadManifests ==
    {[columns |-> required_headers \ {h}, rows |-> <<>>] :
        h \in {"table_name", "row_count"}}

\* the call process_files(base_path, etl_mode), before the first database
Init ==
    /\ pc = "db_loop"
    /\ etl_mode \in DOMAIN EtlModeMap
    /\ database = 0
    /\ manifest_df = NoFrame /\ row_i = 0 /\ log = <<>> /\ report = ""
    /\ raw_df = NoFrame /\ metadata_row = NoMeta /\ outcome = NoOutcome
    /\ validation_df = NoFrame /\ cmp_result = NoResult

mode == EtlModeMap[etl_mode]

\* the for loop takes the next database and prints its banner
EnterDatabase ==
    /\ pc = "db_loop"
    /\ database < Len(database_names)
    /\ database' = database + 1
    /\ log' = Append(log, <<"database", database_names[database + 1]>>)

\* os.path.exists(manifest_path) is false: continue
ManifestMissing ==
    /\ EnterDatabase
    /\ report' = "Manifest file not found"
    /\ UNCHANGED <<pc, etl_mode, manifest_df, row_i,
                   raw_df, metadata_row, outcome, validation_df, cmp_result>>

\* pd.read_csv(manifest_path) raises; nothing catches it
ManifestUnreadable ==
    /\ EnterDatabase
    /\ pc' = "aborted"
    /\ UNCHANGED <<etl_mode, manifest_df, row_i, report,
                   raw_df, metadata_row, outcome, validation_df, cmp_result>>

\* check_manifest_headers fails: continue
ManifestBadHeaders ==
    /\ EnterDatabase
    /\ \E m \in BadManifests :
          /\ ~ check_manifest_headers(m)
          /\ manifest_df' = m
    /\ report' = "Invalid manifest headers"
    /\ UNCHANGED <<pc, etl_mode, row_i,
                   raw_df, metadata_row, outcome, validation_df, cmp_result>>

\* the manifest is read and its headers pass: iterrows starts
ManifestLoaded ==
    /\ EnterDatabase
    /\ \E m \in GoodManifests :
          /\ check_manifest_headers(m)
          /\ manifest_df' = m
    /\ row_i' = 0
    /\ pc' = "table_loop"
    /\ UNCHANGED <<etl_mode, report, raw_df, metadata_row, outcome,
                   validation_df, cmp_result>>

\* iterrows yields the next manifest row and the table's banner is printed
EnterTable ==
    /\ pc = "table_loop"
    /\ row_i < NRows(manifest_df)
    /\ row_i' = row_i + 1
    /\ metadata_row' = manifest_df.rows[row_i + 1]
    /\ log' = Append(log, <<"table", database_names[database], row_i + 1>>)

\* os.path.exists(raw_file) is false: continue
RawMissing ==
    /\ EnterTable
    /\ report' = "Raw file not found"
    /\ UNCHANGED <<pc, etl_mode, database, manifest_df,
                   raw_df, outcome, validation_df, cmp_result>>

\* pd.read_csv or pd.to_datetime of the raw file raises: caught, continue
RawLoadError ==
    /\ EnterTable
    /\ report' = "Error processing table"
    /\ UNCHANGED <<pc, etl_mode, database, manifest_df,
                   raw_df, outcome, validation_df, cmp_result>>

\* the raw file is read and validated by the rules of the mode
RawValidated ==
    /\ EnterTable
    /\ \E df \in DataFrames(ProcessColumns, MaxRows) :
          /\ raw_df' = df
          /\ outcome' = IF mode = "daily"
                         THEN validate_daily_file(df, metadata_row')
                         ELSE validate_full_file(df, metadata_row')

\* ... and there is no validation file
ValidationMissing ==
    /\ RawValidated
    /\ report' = "Validation file not found"
    /\ UNCHANGED <<pc, etl_mode, database, manifest_df,
                   validation_df, cmp_result>>

\* ... and reading the validation file raises: caught by the inner try
ValidationLoadError ==
    /\ RawValidated
    /\ report' = "Error processing validation file"
    /\ UNCHANGED <<pc, etl_mode, database, manifest_df,
                   validation_df, cmp_result>>

\* ... and the validation file is read and compared; an exception of the
\* comparison is caught by the inner try
ValidationCompared ==
    /\ RawValidated
    /\ \E v \in DataFrames(ProcessColumns, MaxValRows) :
          /\ validation_df' = v
          /\ cmp_result' = compare_validation_files(raw_df', v)
    /\ report' = IF cmp_result'.kind = "raise"
                  THEN "Error processing validation file"
                  ELSE "Validation file check"
    /\ UNCHANGED <<pc, etl_mode, database, manifest_df>>

\* iterrows is exhausted: back to the loop over the databases
TablesDone ==
    /\ pc = "table_loop"
    /\ row_i = NRows(manifest_df)
    /\ pc' = "db_loop"
    /\ UNCHANGED <<etl_mode, database, manifest_df, row_i, log, report,
                   raw_df, metadata_row, outcome, validation_df, cmp_result>>

\* database_names is exhausted: process_files returns
Finish ==
    /\ pc = "db_loop"
    /\ database = Len(database_names)
    /\ pc' = "done"
    /\ UNCHANGED <<etl_mode, database, manifest_df, row_i, log, report,
                   raw_df, metadata_row, outcome, validation_df, cmp_result>>

Next ==
    \/ ManifestMissing
    \/ ManifestUnreadable
    \/ ManifestBadHeaders
    \/ ManifestLoaded
    \/ RawMissing
    \/ RawLoadError
    \/ ValidationMissing
    \/ ValidationLoadError
    \/ ValidationCompared
    \/ TablesDone
    \/ Finish

Spec == Init /\ [][Next]_vars

(* ------------------------------ claims -------------------------------- *)

\* the defect messages, by the rule that reports them
RowCountDefects ==
    {"Row count mismatch: expected " \o ToString(e) \o ", got " \o ToString(g) :
        e \in 0..MaxRows + 1, g \in 0..MaxRows}

IdColumnDefects == {"No valid ID column found"}

DailyCreatedDefect ==
    [k \in 0..MaxRows |-> "Found " \o ToString(k) \o " invalid IsCreated values"]

DailyModifiedDefect ==
    [k \in 0..MaxRows |-> "Found " \o ToString(k) \o " invalid IsModified values"]

TimeWindowDefect ==
    [k \in 0..MaxRows |-> "Found " \o ToString(k) \o " records outside time window"]

FullCreatedDefect ==
    [k \in 0..MaxRows |-> "Found " \o ToString(k) \o " rows with IsCreated != 1"]

FullModifiedDefect ==
    [k \in 0..MaxRows |-> "Found " \o ToString(k) \o " rows with IsModified != 0"]

Range(f) == {f[x] : x \in DOMAIN f}

\* the place of a message's rule in the order of the rules, 0 for no rule
RuleOrder ==
    [m \in RowCountDefects \cup IdColumnDefects
            \cup Range(DailyCreatedDefect) \cup Range(DailyModifiedDefect)
            \cup Range(TimeWindowDefect)
            \cup Range(FullCreatedDefect) \cup Range(FullModifiedDefect) |->
        IF m \in RowCountDefects THEN 1
        ELSE IF m \in IdColumnDefects THEN 2
        ELSE IF m \in Range(DailyCreatedDefect) \cup Range(FullCreatedDefect) THEN 3
        ELSE IF m \in Range(DailyModifiedDefect) \cup Range(FullModifiedDefect) THEN 4
        ELSE 5]

\* how often outcome.messages holds m
Times(m) == Cardinality({i \in 1..Len(outcome.messages) : outcome.messages[i] = m})

\* C5: in both modes a row-count defect is reported iff len(raw) differs from
\* the manifest's row_count, and the other defects (their set and order) are
\* the same whether or not the row count matches the manifest.
C5_RowCountIndependent ==
    pc \in {"daily_done", "full_done"} =>
        LET NotRowCount(m) == m \notin RowCountDefects
            Others(msgs) == SelectSeq(msgs, NotRowCount)
            Evaluate(rc) ==
                IF pc = "daily_done"
                THEN validate_daily_file(raw_df, [metadata_row EXCEPT !.row_count = rc])
                ELSE validate_full_file(raw_df, [metadata_row EXCEPT !.row_count = rc])
        IN  /\ (\E i \in 1..Len(outcome.messages) :
                    outcome.messages[i] \in RowCountDefects)
                 <=> NRows(raw_df) # metadata_row.row_count
            /\ Others(Evaluate(NRows(raw_df)).messages) = Others(outcome.messages)
            /\ Others(Evaluate(NRows(raw_df) + 1).messages) = Others(outcome.messages)

\* a daily evaluation with a row-count mismatch and two more defects
C5_Witness ==
    /\ pc = "daily_done"
    /\ NRows(raw_df) # metadata_row.row_count
    /\ Len(outcome.messages) = 3

\* C6: in daily mode, with both columns of a pair present, the message
\* "Found N invalid IsCreated values" appears exactly once, for N the number
\* of rows with DateCreated >= window_start and IsCreated != 1, iff N >= 1,
\* and never for another count; likewise for IsModified / DateModified; with
\* a column of the pair absent no such message appears.
C6_DailyFlagCounts ==
    pc = "daily_done" =>
        LET Stale(flag, date) ==
                IF {flag, date} \subseteq raw_df.columns
                THEN Cardinality({i \in 1..NRows(raw_df) :
                        /\ raw_df.rows[i][date] >= window_start
                        /\ raw_df.rows[i][flag] # 1})
                ELSE 0
        IN  \A k \in 0..MaxRows :
              /\ Times(DailyCreatedDefect[k])
                   = IF k >= 1 /\ k = Stale("IsCreated", "DateCreated")
                     THEN 1 ELSE 0
              /\ Times(DailyModifiedDefect[k])
                   = IF k >= 1 /\ k = Stale("IsModified", "DateModified")
                     THEN 1 ELSE 0

\* a row created at window_end with IsCreated = 0 is counted
C6_Witness ==
    /\ pc = "daily_done"
    /\ {"IsCreated", "DateCreated"} \subseteq raw_df.columns
    /\ NRows(raw_df) = 1
    /\ raw_df.rows[1]["DateCreated"] = window_end
    /\ raw_df.rows[1]["IsCreated"] = 0
    /\ Times("Found 1 invalid IsCreated values") = 1

\* C7: in daily mode with both date columns present, the message
\* "Found N records outside time window" appears exactly once, for N the
\* number of rows with neither date in [window_start, window_end), iff
\* N >= 1, and never for another count.
C7_TimeWindow ==
    (pc = "daily_done"
        /\ {"DateCreated", "DateModified"} \subseteq raw_df.columns) =>
        LET Inside(t) == window_start <= t /\ t < window_end
            outside == {i \in 1..NRows(raw_df) :
                          /\ ~ Inside(raw_df.rows[i]["DateCreated"])
                          /\ ~ Inside(raw_df.rows[i]["DateModified"])}
        IN  \A k \in 0..MaxRows :
              Times(TimeWindowDefect[k])
                 = IF k >= 1 /\ k = Cardinality(outside) THEN 1 ELSE 0

\* one row dated exactly window_end is outside, one dated exactly
\* window_start is inside
C7_Witness ==
    /\ pc = "daily_done"
    /\ {"DateCreated", "DateModified"} \subseteq raw_df.columns
    /\ NRows(raw_df) = 2
    /\ raw_df.rows[1]["DateCreated"] = window_end
    /\ raw_df.rows[1]["DateModified"] = window_start - 1
    /\ raw_df.rows[2]["DateCreated"] = window_start
    /\ raw_df.rows[2]["DateModified"] = window_start - 1
    /\ Times("Found 1 records outside time window") = 1

\* C8: in full mode, with IsModified present a defect is reported iff some
\* row has IsModified != 0, with IsCreated present iff some row has
\* IsCreated != 1; the outcome is that of the same rows with every date
\* replaced by one fixed date, so datasets that differ only in their dates
\* have the same outcome; no time-window defect is reported.
C8_FullIgnoresDates ==
    pc = "full_done" =>
        LET Undated ==
                [raw_df EXCEPT !.rows =
                    [i \in 1..NRows(raw_df) |->
                        [c \in raw_df.columns |->
                            IF c \in {"DateCreated", "DateModified"}
                            THEN window_start - 1
                            ELSE raw_df.rows[i][c]]]]
        IN  /\ "IsModified" \in raw_df.columns =>
                ((\E k \in 1..MaxRows : Times(FullModifiedDefect[k]) > 0)
                  <=> \E i \in 1..NRows(raw_df) :
                          raw_df.rows[i]["IsModified"] # 0)
            /\ "IsCreated" \in raw_df.columns =>
                ((\E k \in 1..MaxRows : Times(FullCreatedDefect[k]) > 0)
                  <=> \E i \in 1..NRows(raw_df) :
                          raw_df.rows[i]["IsCreated"] # 1)
            /\ validate_full_file(Undated, metadata_row) = outcome
            /\ \A k \in 0..MaxRows : Times(TimeWindowDefect[k]) = 0

\* a row modified in the window with IsModified = 1 is a defect
C8_Witness ==
    /\ pc = "full_done"
    /\ {"IsModified", "DateModified", "DateCreated"} \subseteq raw_df.columns
    /\ NRows(raw_df) = 1
    /\ raw_df.rows[1]["IsModified"] = 1
    /\ raw_df.rows[1]["DateModified"] = window_start
    /\ raw_df.rows[1]["DateCreated"] = window_start
    /\ Times("Found 1 rows with IsModified != 0") = 1

\* C10: in both modes is_valid holds iff there is no message, and the
\* messages come in the order of the rules: row count, identifier column,
\* IsCreated, IsModified, time window (daily only).
C10_ValidIffEmptyInRuleOrder ==
    pc \in {"daily_done", "full_done"} =>
        LET msgs == outcome.messages
        IN  /\ outcome.is_valid <=> msgs = <<>>
            /\ \A i \in 1..Len(msgs) : msgs[i] \in DOMAIN RuleOrder
            /\ \A i \in 1..Len(msgs) - 1 :
                 RuleOrder[msgs[i]] < RuleOrder[msgs[i + 1]]

\* a daily evaluation in which every one of the five rules reports
C10_Witness ==
    /\ pc = "daily_done"
    /\ Len(outcome.messages) = 5
    /\ ~ outcome.is_valid

\* C1: with a raw file of at least 2 rows and a validation file of exactly
\* 2 rows, raw's first row differing from validation's second and raw's last
\* row differing from validation's first, the call returns
\* (False, "First and/or last rows don't match between raw and validation
\* files") and does not end in an exception.
C1_MismatchIsReturned ==
    (/\ pc = "compared"
     /\ NRows(raw_df) >= 2
     /\ NRows(validation_df) = 2
     /\ raw_df.rows[1] # validation_df.rows[2]
     /\ raw_df.rows[NRows(raw_df)] # validation_df.rows[1])
        => cmp_result =
             [kind |-> "return", is_valid |-> FALSE,
              message |-> "First and/or last rows don't match between raw and validation files"]

\* C2: with a validation file of exactly 2 rows (outside the single-row
\* case) the result is valid iff raw's first row equals validation's second
\* row and raw's last row equals validation's first row.
C2_ValidIffBothBoundaryRowsMatch ==
    (/\ pc = "compared"
     /\ NRows(validation_df) = 2
     /\ NRows(raw_df) >= 1)
        => ((cmp_result.kind = "return" /\ cmp_result.is_valid)
              <=> (/\ raw_df.rows[1] = validation_df.rows[2]
                   /\ raw_df.rows[NRows(raw_df)] = validation_df.rows[1]))

\* C4: for every raw file of 0 or more rows and every validation file of 0
\* or more rows with the same columns, the call returns a (bool, message)
\* pair and never raises.
C4_CompareIsTotal ==
    pc = "compared" =>
        /\ cmp_result.kind = "return"
        /\ cmp_result.is_valid \in BOOLEAN

\* C9: a validation file without rows is valid whatever raw holds; otherwise,
\* unless both files have exactly one row, a validation file whose row count
\* N is not 2 is invalid with the message naming N.
C9_RowCountPrecedence ==
    pc = "compared" =>
        LET n == NRows(validation_df)
        IN  /\ n = 0 =>
                 (cmp_result.kind = "return" /\ cmp_result.is_valid)
            /\ (n \notin {0, 2} /\ ~ (NRows(raw_df) = 1 /\ n = 1)) =>
                 cmp_result =
                   [kind |-> "return", is_valid |-> FALSE,
                    message |->
                      "Validation file should contain exactly 2 data rows (first and last), found "
                          \o ToString(n) \o " rows"]

\* a validation file of 3 rows against a raw file of 2 rows whose boundary
\* rows it holds
C9_Witness ==
    /\ pc = "compared"
    /\ NRows(validation_df) = 3
    /\ NRows(raw_df) = 2
    /\ validation_df.rows[1] = raw_df.rows[2]
    /\ validation_df.rows[2] = raw_df.rows[1]
    /\ cmp_result.kind = "return"
    /\ ~ cmp_result.is_valid

\* C3: whatever faults the databases and tables meet, process_files never
\* aborts; the rows of a manifest are visited in order, each right after the
\* one before it; and when process_files returns it has visited every
\* database of database_names.
C3_BestEffortSweep ==
    /\ pc # "aborted"
    /\ \A i \in 1..Len(log) :
         log[i][1] = "table" =>
            /\ i > 1
            /\ log[i - 1] = IF log[i][3] = 1
                            THEN <<"database", log[i][2]>>
                            ELSE <<"table", log[i][2], log[i][3] - 1>>
    /\ pc = "done" =>
         \A d \in 1..Len(database_names) :
            \E i \in 1..Len(log) : log[i] = <<"database", database_names[d]>>

====
